---- MODULE Spec2Model ----
(***************************************************************************)
(* A model of dep-dl (src/main.go): the per-entry download units run by    *)
(* main under a sized wait group, the source classification of             *)
(* project.download, meta-import discovery (parseMetaGoImports,            *)
(* getGoImports), the raw git fetch (project.dlGit) and the archive        *)
(* extraction of project.dlGithub over a small file system.                *)
(*                                                                         *)
(* Strings are sequences of atoms.  The atom "/" is the path separator,   *)
(* " " is white space and "https://" is the URL scheme prefix; every other *)
(* atom stands for a run of characters without separators.  A file-system  *)
(* path is such a string, relative to the working directory.               *)
(***************************************************************************)
EXTENDS Naturals, Sequences, FiniteSets, TLC

VARIABLES
    \* ---- archive extraction alone (SpecExtract) ----
    exArchive,   \* the tar stream served for the entry: a sequence of headers
    exPackages,  \* pj.Packages of the entry
    exRuns,      \* how many times dlGithub has run for the entry
    exRes,       \* what the last run of dlGithub returned
    \* ---- discovery alone (SpecDiscover) ----
    dDoc,        \* the tokens of the document the source host serves
    dRes,        \* what getGoImports returned
    dFetched,    \* whether getGoImports has run, and on which answer
    \* ---- a run of main (Spec) ----
    parallelism, \* *fParallelism
    projects,    \* lock.Projects
    units,       \* one record per project: its goroutine running pj.download
    swg,         \* the sized wait group: slots taken
    mainI,       \* how many projects main's loop has started
    mainPc,      \* "loop" up to swg.Wait, "done" after "Download done."
    panicking,   \* a goroutine has panicked and run its deferred calls
    crashed,     \* the runtime has ended the process on the panic
    \* ---- the file system under the working directory (all specifications) ----
    fs

vars == << exArchive, exPackages, exRuns, exRes, dDoc, dRes, dFetched, parallelism,
           projects, units, swg, mainI, mainPc, panicking, crashed, fs >>

exVars == << exArchive, exPackages, exRuns, exRes >>

dVars == << dDoc, dRes, dFetched >>

runVars == << parallelism, projects, units, swg, mainI, mainPc, panicking, crashed >>

----------------------------------------------------------------------------
(* Bounds of the model. *)

\* Longest tar stream drawn for extraction.
MaxEntries == 2
\* Most runs of the extraction on one target.
MaxRuns == 2
\* Longest document drawn for discovery, in tokens.
MaxDocLen == 3
\* Entries of the lock file.
NumProjects == 3
\* Largest value drawn for the flag -p.
MaxParallelism == 2

----------------------------------------------------------------------------
(* Strings. *)

RECURSIVE SplitFrom(_, _, _)
SplitFrom(s, i, cur) ==
    IF i > Len(s) THEN << cur >>
    ELSE IF s[i] = "/" THEN << cur >> \o SplitFrom(s, i + 1, "")
    ELSE SplitFrom(s, i + 1, cur \o s[i])

\* strings.Split(s, "/"): the parts between separators, empty parts kept.
Split(s) == SplitFrom(s, 1, "")

RECURSIVE JoinFrom(_, _, _)
JoinFrom(elems, i, acc) ==
    IF i > Len(elems) THEN acc
    ELSE IF elems[i] = "" THEN JoinFrom(elems, i + 1, acc)
    ELSE JoinFrom(elems, i + 1,
                  IF acc = << >> THEN << elems[i] >> ELSE acc \o << "/", elems[i] >>)

\* filepath.Join over parts: empty parts are dropped, the rest joined by "/".
Join(elems) == JoinFrom(elems, 1, << >>)

\* filepath.Join(a, b) of two paths.
Join2(a, b) == IF a = << >> THEN b ELSE IF b = << >> THEN a ELSE a \o << "/" >> \o b

\* filepath.Dir of a clean relative path (<< >> is the working directory).
Dir(p) ==
    IF \E i \in 1..Len(p) : p[i] = "/"
    THEN LET last == CHOOSE i \in 1..Len(p) :
                        p[i] = "/" /\ \A j \in (i + 1)..Len(p) : p[j] # "/"
         IN SubSeq(p, 1, last - 1)
    ELSE << >>

\* p is base or lies below it.
IsUnder(p, base) ==
    \/ p = base
    \/ /\ Len(p) > Len(base)
       /\ SubSeq(p, 1, Len(base)) = base
       /\ p[Len(base) + 1] = "/"

\* The proper ancestors of p, and p itself, that MkdirAll(p) walks.
Ancestors(p) ==
    { SubSeq(p, 1, i) : i \in { j \in 1..Len(p) : j = Len(p) \/ p[j + 1] = "/" } }

----------------------------------------------------------------------------
(* The file system: a function from the paths that exist to their nodes. *)

NoFile == << >>

DirNode == [kind |-> "dir", data |-> << >>, mode |-> 511, mtime |-> 0]

FileNode(mode) == [kind |-> "file", data |-> << >>, mode |-> mode, mtime |-> 0]

LinkNode(oldname) == [kind |-> "link", data |-> oldname, mode |-> 511, mtime |-> 0]

Restrict(f, S) == [p \in S |-> f[p]]

\* os.RemoveAll(base): base and everything below it is gone.
RemoveAll(f, base) == Restrict(f, { p \in DOMAIN f : ~IsUnder(p, base) })

\* os.MkdirAll(p): every missing ancestor and p become directories; a
\* non-directory on the way is an error.
MkdirAll(f, p) ==
    IF \E a \in Ancestors(p) : a \in DOMAIN f /\ f[a].kind # "dir"
    THEN [fs |-> f, err |-> "ENOTDIR"]
    ELSE [fs |-> [q \in DOMAIN f \cup Ancestors(p) |->
                    IF q \in DOMAIN f THEN f[q] ELSE DirNode],
          err |-> ""]

\* io.Copy into a file opened without O_TRUNC: the new bytes overwrite the
\* head of the old ones.
Overwrite(old, new) ==
    IF Len(new) >= Len(old) THEN new ELSE new \o SubSeq(old, Len(new) + 1, Len(old))

\* os.OpenFile(target, O_RDWR|O_CREATE, mode) followed by io.Copy of data.
\* Opening a directory for writing fails; a link at the target is not
\* followed here (the links of the model point at paths that do not exist).
WriteFile(f, target, mode, data) ==
    IF target \in DOMAIN f
    THEN IF f[target].kind = "file"
         THEN [fs |-> [f EXCEPT ![target].data = Overwrite(@, data)], err |-> ""]
         ELSE [fs |-> f, err |-> IF f[target].kind = "dir" THEN "EISDIR" ELSE "ELOOP"]
    ELSE IF Dir(target) # << >> /\ (Dir(target) \notin DOMAIN f \/ f[Dir(target)].kind # "dir")
    THEN [fs |-> f, err |-> "ENOENT"]
    ELSE [fs |-> (target :> [FileNode(mode) EXCEPT !.data = data]) @@ f, err |-> ""]

\* os.Symlink(oldname, newname): a link is created AT newname, holding oldname.
Symlink(f, oldname, newname) ==
    IF newname = << >> THEN [fs |-> f, err |-> "ENOENT"]
    ELSE IF newname \in DOMAIN f THEN [fs |-> f, err |-> "EEXIST"]
    ELSE IF Dir(newname) # << >> /\ (Dir(newname) \notin DOMAIN f \/ f[Dir(newname)].kind # "dir")
    THEN [fs |-> f, err |-> "ENOENT"]
    ELSE [fs |-> (newname :> LinkNode(oldname)) @@ f, err |-> ""]

\* os.Chtimes(target, atime, mtime); its error is dropped by the caller.
Chtimes(f, target, mtime) ==
    IF target \in DOMAIN f THEN [f EXCEPT ![target].mtime = mtime] ELSE f

----------------------------------------------------------------------------
(* project.dlGithub: fetching and unpacking the archive of one revision. *)

\* vendorDir, relative to the working directory.
vendorDir == << "vendor" >>

\* pj.subdirTable as built by project.download: the set of keys mapped to
\* true; the package "." is stored under the empty key.
SubdirTable(packages) ==
    { IF packages[i] = << "." >> THEN << >> ELSE packages[i] : i \in 1..Len(packages) }

\* nameDirs[1 : len(nameDirs)-1] joined: the key looked up in the table.
PkgOf(nameDirs) == Join(SubSeq(nameDirs, 2, Len(nameDirs) - 1))

\* A filter that an empty table switches off (a mutation of SkippedByFilter).
SkippedUnlessEmpty(nameDirs, table) ==
    Len(nameDirs) > 2 /\ table # {} /\ PkgOf(nameDirs) \notin table

\* Filtering on the first directory below the wrapper only (a mutation of
\* SkippedByFilter).
SkippedByFirstDir(nameDirs, table) ==
    Len(nameDirs) > 2 /\ << nameDirs[2] >> \notin table

\* The `continue' of the package filter.
SkippedByFilter(nameDirs, table) ==
    Len(nameDirs) > 2 /\ PkgOf(nameDirs) \notin table

\* filepath.Join(baseDir, filepath.Join(nameDirs[1:]...)).
TargetOf(baseDir, nameDirs) == Join2(baseDir, Join(Tail(nameDirs)))

\* The switch on hdr.Typeflag.
WriteEntry(f, hdr, target) ==
    CASE hdr.Typeflag = "reg" -> WriteFile(f, target, hdr.Mode, hdr.Data)
      [] hdr.Typeflag = "dir" -> MkdirAll(f, target)
      [] hdr.Typeflag = "symlink" -> Symlink(f, target, hdr.Linkname)
      [] OTHER -> [fs |-> f, err |-> ""]

\* The path the switch on hdr.Typeflag asks the file system to create.
CreatedPath(hdr, target) == IF hdr.Typeflag = "symlink" THEN hdr.Linkname ELSE target

\* One round of the loop over the tar stream, st being the run so far.
ExtractOne(st, hdr, baseDir, table) ==
    LET nameDirs == Split(hdr.Name)
        target == TargetOf(baseDir, nameDirs)
    IN  IF hdr.Typeflag = "corrupt"
        THEN [st EXCEPT !.err = "tar"]
        ELSE IF SkippedByFilter(nameDirs, table)
        THEN [st EXCEPT !.log = Append(@, "filtered")]
        ELSE IF target = baseDir
        THEN [st EXCEPT !.log = Append(@, "root")]
        ELSE LET w == WriteEntry(st.fs, hdr, target)
             IN  IF w.err # ""
                 THEN [fs |-> w.fs, err |-> w.err,
                       log |-> Append(st.log, "write"),
                       touched |-> st.touched \cup {CreatedPath(hdr, target)}]
                 ELSE [fs |-> Chtimes(w.fs, target, hdr.ModTime), err |-> "",
                       log |-> Append(st.log, "write"),
                       touched |-> st.touched \cup {CreatedPath(hdr, target), target}]

RECURSIVE ExtractFrom(_, _, _, _, _)
ExtractFrom(st, files, i, baseDir, table) ==
    IF i > Len(files) \/ st.err # "" THEN st
    ELSE ExtractFrom(ExtractOne(st, files[i], baseDir, table), files, i + 1, baseDir, table)

\* dlGithub for the entry `name' with table pj.subdirTable, given the answer
\* resp of the archive host: the file system after it, its error ("" for
\* nil), what the loop did with each header it read, and the paths it asked
\* the file system to remove or create.
dlGithub(f, name, table, resp) ==
    LET baseDir == Join2(vendorDir, name) IN
    IF resp.kind # "ok"
    THEN [fs |-> f, err |-> resp.kind, log |-> << >>, touched |-> {}]
    ELSE LET made == MkdirAll(RemoveAll(f, baseDir), baseDir)
         IN  IF made.err # ""
             THEN [fs |-> made.fs, err |-> made.err, log |-> << >>, touched |-> {baseDir}]
             ELSE ExtractFrom([fs |-> made.fs, err |-> "", log |-> << >>,
                               touched |-> {baseDir}],
                              resp.files, 1, baseDir, table)

\* What the archive host can answer: a transport error, a status other than
\* 200, a body that is no gzip stream, or the tar stream `files'.
Responses(files) ==
    { [kind |-> k, files |-> << >>] : k \in {"neterr", "status", "gzip"} }
        \cup { [kind |-> "ok", files |-> files] }

----------------------------------------------------------------------------
(* Inputs of the extraction. *)

Hdr(name, type) ==
    [Name |-> name, Typeflag |-> type, Linkname |-> << >>, Mode |-> 420,
     ModTime |-> 1, Data |-> IF type = "reg" THEN << 7 >> ELSE << >>]

\* Headers as the archive host writes them: a wrapper directory W, files and
\* directories below it (directory names end in "/"), a symbolic link whose
\* recorded link text is x, and a damaged header.
Headers ==
    { Hdr(<< "W", "/" >>, "dir"),
      Hdr(<< "W", "/", "a.txt" >>, "reg"),
      Hdr(<< "W", "/", "foo", "/" >>, "dir"),
      Hdr(<< "W", "/", "foo", "/", "a.txt" >>, "reg"),
      Hdr(<< "W", "/", "foo", "/", "sub", "/" >>, "dir"),
      Hdr(<< "W", "/", "foo", "/", "sub", "/", "b.txt" >>, "reg"),
      Hdr(<< "W", "/", "baz", "/", "b.txt" >>, "reg"),
      [Hdr(<< "W", "/", "lnk" >>, "symlink") EXCEPT !.Linkname = << "x" >>],
      Hdr(<< "W", "/", "a.txt" >>, "corrupt") }

RECURSIVE SeqsUpTo(_, _)
SeqsUpTo(S, n) ==
    IF n = 0 THEN { << >> }
    ELSE LET shorter == SeqsUpTo(S, n - 1)
         IN  shorter \cup { Append(s, x) : s \in shorter, x \in S }

Archives == SeqsUpTo(Headers, MaxEntries)

PackageLists ==
    { << >>,
      << << "." >> >>,
      << << "foo" >> >>,
      << << "foo", "/", "sub" >> >>,
      << << "foo" >>, << "baz" >> >>,
      << << "foo" >>, << "foo", "/", "sub" >> >> }

\* The entry whose archive is unpacked alone.
exName == << "pkg" >>

exBase == Join2(vendorDir, exName)

\* The target before the first run: absent, or left with stale content.
StaleTrees ==
    { NoFile,
      (exBase :> DirNode) @@ (vendorDir :> DirNode),
      (Join2(exBase, << "old.txt" >>) :> [FileNode(420) EXCEPT !.data = << 1, 2 >>])
          @@ (Join2(exBase, << "a.txt" >>) :> [FileNode(420) EXCEPT !.data = << 3, 4 >>])
          @@ (exBase :> DirNode) @@ (vendorDir :> DirNode) }

NoRun == [fs |-> NoFile, err |-> "", log |-> << >>, touched |-> {}]

----------------------------------------------------------------------------
(* Source patterns. *)

\* An atom that holds none of "/", " " and new line.
IsSeg(a) == a \notin {"/", " ", "\n", "https://"}

GithubAt(s, i) ==
    /\ i + 4 <= Len(s)
    /\ s[i] = "github.com" /\ s[i + 1] = "/" /\ IsSeg(s[i + 2])
    /\ s[i + 3] = "/" /\ IsSeg(s[i + 4])

NoMatch == << >>

\* githubRegexp.FindStringSubmatch(s): the leftmost match as
\* << match[0], match[1], match[2] >>, or NoMatch for nil.
GithubMatch(s) ==
    IF \E i \in 1..Len(s) : GithubAt(s, i)
    THEN LET i == CHOOSE k \in 1..Len(s) :
                     GithubAt(s, k) /\ \A j \in 1..(k - 1) : ~GithubAt(s, j)
         IN  << SubSeq(s, i, i + 4), << s[i + 2] >>, << s[i + 4] >> >>
    ELSE NoMatch

\* gopkgRegexp.FindStringSubmatch(s) # nil.
GopkgMatches(s) ==
    \E i \in 1..Len(s) : s[i] = "gopkg.in" /\ i + 2 <= Len(s) /\ s[i + 1] = "/"
                         /\ s[i + 2] # "\n"

\* strings.HasPrefix(s, "https://").
HasHttpsPrefix(s) == Len(s) >= 1 /\ s[1] = "https://"

\* strings.ToLower on the atoms the model uses.
ToLower(a) ==
    CASE a \in {"Git", "GIT"} -> "git"
      [] a = "META" -> "meta"
      [] a = "BODY" -> "body"
      [] a = "HEAD" -> "head"
      [] a = "NAME" -> "name"
      [] OTHER -> a

\* strings.EqualFold.
EqualFold(a, b) == ToLower(a) = ToLower(b)

RECURSIVE FieldsFrom(_, _, _)
FieldsFrom(s, i, cur) ==
    IF i > Len(s) THEN (IF cur = << >> THEN << >> ELSE << cur >>)
    ELSE IF s[i] \in {" ", "\n"}
    THEN (IF cur = << >> THEN << >> ELSE << cur >>) \o FieldsFrom(s, i + 1, << >>)
    ELSE FieldsFrom(s, i + 1, Append(cur, s[i]))

\* strings.Fields(s): the runs between white space.
Fields(s) == FieldsFrom(s, 1, << >>)

----------------------------------------------------------------------------
(* Meta-import discovery: parseMetaGoImports and getGoImports. *)

RECURSIVE AttrFrom(_, _, _)
AttrFrom(attrs, name, i) ==
    IF i > Len(attrs) THEN << >>
    ELSE IF EqualFold(attrs[i][1], name) THEN attrs[i][2]
    ELSE AttrFrom(attrs, name, i + 1)

\* attrValue(attrs, name): the value of the first attribute whose key equals
\* name up to case, or the empty string.  An attribute is << key, value >>.
attrValue(attrs, name) == AttrFrom(attrs, name, 1)

metaImport(prefix, vcs, root) == [Prefix |-> prefix, VCS |-> vcs, RepoRoot |-> root]

\* A raw token of the document: kind is "start", "end", "text" or "error"
\* (d.RawToken failing with something other than io.EOF).
RECURSIVE ParseFrom(_, _, _)
ParseFrom(toks, i, imports) ==
    IF i > Len(toks) THEN [imports |-> imports, err |-> ""]
    ELSE LET t == toks[i] IN
      IF t.kind = "error"
      THEN [imports |-> imports, err |-> IF Len(imports) > 0 THEN "" ELSE "xml"]
      ELSE IF t.kind = "start" /\ EqualFold(t.local, "body")
      THEN [imports |-> imports, err |-> ""]
      ELSE IF t.kind = "end" /\ EqualFold(t.local, "head")
      THEN [imports |-> imports, err |-> ""]
      ELSE IF t.kind # "start" \/ ~EqualFold(t.local, "meta")
      THEN ParseFrom(toks, i + 1, imports)
      ELSE IF /\ attrValue(t.attrs, "name") = << "go-source" >>
              /\ Len(imports) = 1
              /\ GithubMatch(attrValue(t.attrs, "content")) # NoMatch
      THEN ParseFrom(toks, i + 1,
                     << metaImport(imports[1].Prefix, << "git" >>,
                                   GithubMatch(attrValue(t.attrs, "content"))[1]) >>)
      ELSE IF attrValue(t.attrs, "name") # << "go-import" >>
      THEN ParseFrom(toks, i + 1, imports)
      ELSE LET f == Fields(attrValue(t.attrs, "content"))
           IN  IF Len(f) = 3
               THEN ParseFrom(toks, i + 1, Append(imports, metaImport(f[1], f[2], f[3])))
               ELSE ParseFrom(toks, i + 1, imports)

\* parseMetaGoImports(r) over the tokens r decodes to.
parseMetaGoImports(toks) == ParseFrom(toks, 1, << >>)

\* Accepting any non-empty list of imports (a mutation of NotOneImport).
NoImportAtAll(imports) == Len(imports) = 0

\* len(imports) != 1.
NotOneImport(imports) == Len(imports) # 1

NoMeta == [Prefix |-> << >>, VCS |-> << >>, RepoRoot |-> << >>]

\* getGoImports given the answer resp of the source host: the import and
\* the error ("" for nil).
getGoImports(resp) ==
    IF resp.kind # "ok" THEN [meta |-> NoMeta, err |-> resp.kind]
    ELSE LET parsed == parseMetaGoImports(resp.body) IN
      IF parsed.err # "" THEN [meta |-> NoMeta, err |-> parsed.err]
      ELSE IF NotOneImport(parsed.imports) THEN [meta |-> NoMeta, err |-> "Too many imports"]
      ELSE [meta |-> parsed.imports[1], err |-> ""]

\* strings.ToLower(meta.VCS) != "git" never holding (a mutation of UnsupportedVCS).
AnyVCSSupported(vcs) == FALSE

\* strings.ToLower(meta.VCS) != "git".
UnsupportedVCS(vcs) == Len(vcs) # 1 \/ ToLower(vcs[1]) # "git"

----------------------------------------------------------------------------
(* Documents served to discovery. *)

Meta(local, nameKey, name, content) ==
    [kind |-> "start", local |-> local,
     attrs |-> << << nameKey, << name >> >>, << "content", content >> >>]

Elem(kind, local) == [kind |-> kind, local |-> local, attrs |-> << >>]

GitRoot == << "https://", "host", "/", "owner", "/", "repo" >>

SvnRoot == << "https://", "svn.host", "/", "repo" >>

GithubRoot == << "github.com", "/", "u", "/", "r" >>

ImportGit == Meta("meta", "name", "go-import",
                  << "example.org", "/", "pkg", " ", "git", " " >> \o GitRoot)

ImportSvn == Meta("META", "NAME", "go-import",
                  << "example.org", "/", "pkg", " ", "svn", " ", " " >> \o SvnRoot)

ImportUpper == Meta("meta", "name", "go-import",
                    << "example.org", "/", "pkg", " ", "Git", " " >> \o GitRoot)

ImportShort == Meta("meta", "name", "go-import", << "example.org", "/", "pkg", " ", "git" >>)

SourceGithub == Meta("meta", "name", "go-source",
                     << "example.org", "/", "pkg", " ", "https://" >> \o GithubRoot
                        \o << " ", "https://" >> \o GithubRoot \o << "/", "tree" >>)

SourceOther == Meta("meta", "name", "go-source",
                    << "example.org", "/", "pkg", " " >> \o GitRoot)

DocTokens ==
    { ImportGit, ImportSvn, ImportUpper, ImportShort, SourceGithub, SourceOther,
      Elem("end", "head"), Elem("start", "BODY"), Elem("start", "title"),
      Elem("error", "") }

----------------------------------------------------------------------------
(* project.dlGit: clone and reset by the git client. *)

\* dlGit(path) for the entry `name' at revision rev.  git is how the client
\* fares ("ok", "clonefail", "resetfail"; cloning the empty URL always
\* fails) and resp the archive host's answer, used when path names a github
\* repository.  ops lists the client and removal steps taken, url the URL
\* handed to git clone.
dlGit(f, name, table, path, git, resp) ==
    LET baseDir == Join2(vendorDir, name)
        parent == MkdirAll(f, Dir(baseDir))
        removed == RemoveAll(parent.fs, baseDir)
        cloned == ((Join2(baseDir, << ".git" >>) :> FileNode(420)) @@ MkdirAll(removed, baseDir).fs)
        reset == [cloned EXCEPT ![Join2(baseDir, << ".git" >>)].data = << 1 >>]
    IN  IF GithubMatch(path) # NoMatch
        THEN dlGithub(f, name, table, resp) @@ [ops |-> << >>, url |-> << >>]
        ELSE IF parent.err # ""
        THEN [fs |-> parent.fs, err |-> parent.err, log |-> << >>, touched |-> {},
              ops |-> << >>, url |-> << >>]
        ELSE IF git = "clonefail" \/ path = << >>
        THEN [fs |-> removed, err |-> "clone", log |-> << >>, touched |-> {baseDir},
              ops |-> << "remove", "clone" >>, url |-> << path >>]
        ELSE IF git = "resetfail"
        THEN [fs |-> cloned, err |-> "reset", log |-> << >>, touched |-> {baseDir},
              ops |-> << "remove", "clone", "reset" >>, url |-> << path >>]
        ELSE [fs |-> reset, err |-> "", log |-> << >>, touched |-> {baseDir},
              ops |-> << "remove", "clone", "reset" >>, url |-> << path >>]

GitOutcomes == {"ok", "clonefail", "resetfail"}

----------------------------------------------------------------------------
(* project.download and main. *)

\* src := pj.Source, or pj.Name when that is empty.
SrcOf(pj) == IF Len(pj.Source) = 0 THEN pj.Name ELSE pj.Source

\* Which branch of download the source string takes.
RouteOf(src) ==
    IF GithubMatch(src) # NoMatch THEN "github"
    ELSE IF GopkgMatches(src) THEN "gopkg"
    ELSE "go-imports"

\* gitUrl as download computes it for a gopkg source.
GopkgUrl(src) == IF ~HasHttpsPrefix(src) THEN << "https://" >> \o src ELSE << >>

\* swg.Add() returning at once whatever is taken (a mutation of SwgHasRoom).
SwgNeverBlocks == TRUE

\* swg.Add() can return: a slot is free.
SwgHasRoom == swg < parallelism

\* swg.Wait() returning at once (a mutation of SwgAllDone).
SwgNeverWaits == TRUE

\* swg.Wait() can return: every Add has met its Done.
SwgAllDone == swg = 0

Idle == [pc |-> "idle", route |-> "", meta |-> NoMeta, err |-> "", ops |-> << >>,
         url |-> << >>, touched |-> {}]

\* The unit after a call of dlGithub or dlGit returned r: download returns,
\* or panics on the error; either way the deferred swg.Done() has run.
Finished(unit, r) ==
    [unit EXCEPT !.pc = IF r.err = "" THEN "done" ELSE "panicked",
                 !.err = r.err, !.ops = r.ops, !.url = r.url, !.touched = r.touched]

\* The unit after download panicked with err before any fetch.
Panicked(unit, err) == [unit EXCEPT !.pc = "panicked", !.err = err]

\* Tar streams served to the units of a run: a plain tree, and one that
\* holds a symbolic link.
RunArchives ==
    { << Hdr(<< "W", "/" >>, "dir"), Hdr(<< "W", "/", "a.txt" >>, "reg") >>,
      << [Hdr(<< "W", "/", "lnk" >>, "symlink") EXCEPT !.Linkname = << "x" >>] >> }

\* Documents served to the units of a run.
RunDocs ==
    { << ImportSvn >>, << ImportUpper, Elem("end", "head") >>,
      << ImportGit, ImportSvn >>, << ImportGit, SourceGithub >> }

DiscoveryAnswers ==
    { [kind |-> "ok", body |-> d] : d \in RunDocs } \cup { [kind |-> "neterr", body |-> << >>] }

\* The archive host's answers to the units of a run.
RunResponses ==
    { [kind |-> "status", files |-> << >>] }
        \cup { [kind |-> "ok", files |-> files] : files \in RunArchives }

NoAnswer == [kind |-> "neterr", files |-> << >>]

\* Entries of the lock file: dep names every project once.
Project(i, kind) ==
    LET r == "r" \o ToString(i) IN
    CASE kind = "github" ->
           [Name |-> << "github.com", "/", "u", "/", r >>, Source |-> << >>,
            Packages |-> << << "." >> >>]
      [] kind = "gopkg" ->
           [Name |-> << "gopkg.in", "/", r >>, Source |-> << >>,
            Packages |-> << << "." >> >>]
      [] kind = "gopkg-https" ->
           [Name |-> << "gopkg.in", "/", r >>,
            Source |-> << "https://", "gopkg.in", "/", r >>,
            Packages |-> << << "." >> >>]
      [] OTHER ->
           [Name |-> << "example.org", "/", r >>, Source |-> << >>,
            Packages |-> << << "." >> >>]

Kinds == << "github", "vanity", "gopkg", "gopkg-https" >>

\* The lock files drawn: every project of one kind, or the kinds in turn
\* starting from any of them.
Manifests ==
    { [i \in 1..NumProjects |-> Project(i, Kinds[k])] : k \in 1..Len(Kinds) }
        \cup { [i \in 1..NumProjects |-> Project(i, Kinds[((i + k) % Len(Kinds)) + 1])] :
                  k \in 1..Len(Kinds) }

Init ==
    /\ parallelism \in 1..MaxParallelism
    /\ projects \in Manifests
    /\ units = [i \in 1..NumProjects |-> Idle]
    /\ swg = 0
    /\ mainI = 0
    /\ mainPc = "loop"
    /\ panicking = FALSE
    /\ crashed = FALSE
    /\ fs = NoFile
    /\ exArchive = << >> /\ exPackages = << >> /\ exRuns = 0 /\ exRes = NoRun
    /\ dDoc = << >> /\ dRes = [meta |-> NoMeta, err |-> ""] /\ dFetched = "no"

\* main's loop: swg.Add(), then the goroutine of the next project is started.
MainAdd ==
    /\ ~crashed
    /\ mainPc = "loop"
    /\ mainI < Len(projects)
    /\ SwgHasRoom
    /\ swg' = swg + 1
    /\ mainI' = mainI + 1
    /\ units' = [units EXCEPT ![mainI + 1].pc = "spawned"]
    /\ UNCHANGED << parallelism, projects, mainPc, panicking, crashed, fs, exVars, dVars >>

\* main after its loop: swg.Wait() returns and "Download done." is printed.
MainWait ==
    /\ ~crashed
    /\ mainPc = "loop"
    /\ mainI = Len(projects)
    /\ SwgAllDone
    /\ mainPc' = "done"
    /\ UNCHANGED << parallelism, projects, units, swg, mainI, panicking, crashed, fs,
                    exVars, dVars >>

\* What every end of download does: the deferred swg.Done() gives the slot
\* back; on a panic the goroutine then goes on to end the process.
Leave(u, unit) ==
    /\ units' = [units EXCEPT ![u] = unit]
    /\ swg' = swg - 1
    /\ panicking' = (panicking \/ unit.pc = "panicked")
    /\ UNCHANGED << parallelism, projects, mainI, mainPc, crashed, exVars, dVars >>

\* download of a source that names a github repository.
DownloadGithub(u) ==
    /\ ~crashed
    /\ units[u].pc = "spawned"
    /\ RouteOf(SrcOf(projects[u])) = "github"
    /\ \E resp \in RunResponses :
         LET pj == projects[u]
             r == dlGithub(fs, pj.Name, SubdirTable(pj.Packages), resp)
                     @@ [ops |-> << >>, url |-> << >>]
         IN  /\ fs' = r.fs
             /\ Leave(u, Finished([units[u] EXCEPT !.route = "github"], r))

\* download of a gopkg.in source.
DownloadGopkg(u) ==
    /\ ~crashed
    /\ units[u].pc = "spawned"
    /\ RouteOf(SrcOf(projects[u])) = "gopkg"
    /\ \E git \in GitOutcomes :
         LET pj == projects[u]
             r == dlGit(fs, pj.Name, SubdirTable(pj.Packages), GopkgUrl(SrcOf(pj)),
                        git, NoAnswer)
         IN  /\ fs' = r.fs
             /\ Leave(u, Finished([units[u] EXCEPT !.route = "gopkg"], r))

\* download of any other source, up to the check of the discovered VCS.
Discover(u) ==
    /\ ~crashed
    /\ units[u].pc = "spawned"
    /\ RouteOf(SrcOf(projects[u])) = "go-imports"
    /\ \E resp \in DiscoveryAnswers :
         LET g == getGoImports(resp)
             unit == [units[u] EXCEPT !.route = "go-imports", !.meta = g.meta]
         IN  IF g.err # ""
             THEN /\ Leave(u, Panicked(unit, g.err))
                  /\ fs' = fs
             ELSE IF UnsupportedVCS(g.meta.VCS)
             THEN /\ Leave(u, Panicked(unit, "Unsupported VCS type"))
                  /\ fs' = fs
             ELSE /\ units' = [units EXCEPT ![u] = [unit EXCEPT !.pc = "discovered"]]
                  /\ UNCHANGED << parallelism, projects, swg, mainI, mainPc, panicking,
                                  crashed, fs, exVars, dVars >>

\* download after discovery: dlGit(meta.RepoRoot).
DownloadDiscovered(u) ==
    /\ ~crashed
    /\ units[u].pc = "discovered"
    /\ \E git \in GitOutcomes : \E resp \in RunResponses :
         LET pj == projects[u]
             r == dlGit(fs, pj.Name, SubdirTable(pj.Packages), units[u].meta.RepoRoot,
                        git, resp)
         IN  /\ fs' = r.fs
             /\ Leave(u, Finished(units[u], r))

\* The runtime ends the process once the panicking goroutine has run its
\* deferred calls; the other goroutines run until then.
Crash ==
    /\ panicking
    /\ ~crashed
    /\ crashed' = TRUE
    /\ UNCHANGED << parallelism, projects, units, swg, mainI, mainPc, panicking, fs,
                    exVars, dVars >>

Next ==
    \/ MainAdd
    \/ MainWait
    \/ \E u \in 1..NumProjects : DownloadGithub(u)
    \/ \E u \in 1..NumProjects : DownloadGopkg(u)
    \/ \E u \in 1..NumProjects : Discover(u)
    \/ \E u \in 1..NumProjects : DownloadDiscovered(u)
    \/ Crash

Spec == Init /\ [][Next]_vars

----------------------------------------------------------------------------
(* Extraction alone: dlGithub run again and again for one entry. *)

InitExtract ==
    /\ exArchive \in Archives
    /\ exPackages \in PackageLists
    /\ exRuns = 0
    /\ exRes = NoRun
    /\ fs \in StaleTrees
    /\ parallelism = 1 /\ projects = << >> /\ units = << >> /\ swg = 0 /\ mainI = 0
    /\ mainPc = "loop" /\ panicking = FALSE /\ crashed = FALSE
    /\ dDoc = << >> /\ dRes = [meta |-> NoMeta, err |-> ""] /\ dFetched = "no"

\* The archive was served and unpacking began.
Served(res) == res.err \notin {"neterr", "status", "gzip"}

\* One run of dlGithub for the entry; exRuns counts the runs that were
\* served the archive.
ExRun ==
    /\ exRuns < MaxRuns
    /\ \E resp \in Responses(exArchive) :
         LET r == dlGithub(fs, exName, SubdirTable(exPackages), resp)
         IN  /\ exRes' = r
             /\ fs' = r.fs
             /\ exRuns' = IF Served(r) THEN exRuns + 1 ELSE exRuns
    /\ UNCHANGED << exArchive, exPackages, runVars, dVars >>

NextExtract == ExRun

SpecExtract == InitExtract /\ [][NextExtract]_vars

----------------------------------------------------------------------------
(* Discovery alone: getGoImports on one document. *)

Docs == SeqsUpTo(DocTokens, MaxDocLen)

InitDiscover ==
    /\ dDoc \in Docs
    /\ dRes = [meta |-> NoMeta, err |-> ""]
    /\ dFetched = "no"
    /\ fs = NoFile
    /\ exArchive = << >> /\ exPackages = << >> /\ exRuns = 0 /\ exRes = NoRun
    /\ parallelism = 1 /\ projects = << >> /\ units = << >> /\ swg = 0 /\ mainI = 0
    /\ mainPc = "loop" /\ panicking = FALSE /\ crashed = FALSE

\* getGoImports on the source host's answer: the document, or no answer.
DiscoverFetch ==
    /\ dFetched = "no"
    /\ \E resp \in { [kind |-> "ok", body |-> dDoc], [kind |-> "neterr", body |-> << >>] } :
         /\ dRes' = getGoImports(resp)
         /\ dFetched' = resp.kind
    /\ UNCHANGED << dDoc, fs, exVars, runVars >>

NextDiscover == DiscoverFetch

SpecDiscover == InitDiscover /\ [][NextDiscover]_vars

----------------------------------------------------------------------------
(* The bounded run of the units (Spec). *)

\* The units that hold a slot and have not left download.
InFlight == { u \in 1..NumProjects : units[u].pc \in {"spawned", "discovered"} }

\* C1: at most `parallelism' units are between swg.Add() and the end of
\* download, each of them holds one of the slots taken, and no unit has begun
\* to resolve or fetch before main took a slot for it.
C1_BoundedConcurrency ==
    /\ Cardinality(InFlight) <= parallelism
    /\ Cardinality(InFlight) = swg
    /\ \A u \in 1..NumProjects : units[u].pc # "idle" => u <= mainI

\* C1 witness: every slot is taken while main still has a project to start.
C1_Witness ==
    /\ Cardinality(InFlight) = parallelism
    /\ mainI < NumProjects
    /\ \E u \in InFlight : units[u].pc = "discovered"

\* C2: "Download done." is printed only when every project's unit has been
\* started and has left download; none is idle or in flight then.
C2_DoneAfterAll ==
    mainPc = "done" =>
        /\ mainI = NumProjects
        /\ \A u \in 1..NumProjects : units[u].pc \in {"done", "panicked"}

\* C2 witness: the run is reported done after every unit succeeded.
C2_Witness == mainPc = "done" /\ \A u \in 1..NumProjects : units[u].pc = "done"

\* C3: once a unit has hit a fatal error, "Download done." is never printed.
C3_NoDoneAfterPanic ==
    (\E u \in 1..NumProjects : units[u].pc = "panicked") => mainPc # "done"

\* C7: a unit whose discovered VCS is not git (in any letter case) has
\* failed with the unsupported-VCS error and has removed, cloned and reset
\* nothing.
C7_UnsupportedVCS ==
    \A u \in 1..NumProjects :
        (units[u].meta # NoMeta
            /\ units[u].meta.VCS \notin { << "git" >>, << "Git" >>, << "GIT" >> })
        => /\ units[u].pc = "panicked"
           /\ units[u].err = "Unsupported VCS type"
           /\ units[u].ops = << >>
           /\ units[u].url = << >>
           /\ units[u].touched = {}

\* C7 witness: a unit discovered svn and failed.
C7_Witness ==
    \E u \in 1..NumProjects :
        units[u].meta.VCS = << "svn" >> /\ units[u].pc = "panicked"

\* C9: the paths two different units ask the file system to remove or
\* create are disjoint.
C9_DisjointPaths ==
    \A u, v \in 1..NumProjects :
        u # v => units[u].touched \cap units[v].touched = {}

\* C10: a unit whose source is a gopkg.in path and no github path has done
\* no discovery and has handed git clone one URL, which is not empty, begins
\* with "https://" and names the source.
C10_GopkgSecureUrl ==
    \A u \in 1..NumProjects :
        LET src == SrcOf(projects[u]) IN
        (units[u].pc \in {"done", "panicked"}
            /\ GithubMatch(src) = NoMatch /\ GopkgMatches(src))
        => /\ units[u].meta = NoMeta
           /\ Len(units[u].url) = 1
           /\ units[u].url[1] # << >>
           /\ units[u].url[1][1] = "https://"
           /\ units[u].url[1] \in { src, << "https://" >> \o src }

----------------------------------------------------------------------------
(* Extraction (SpecExtract). *)

Slashes(name) == { i \in 1..Len(name) : name[i] = "/" }

\* The segments of a stored name after its wrapper segment.
SegmentsBelowWrapper(name) ==
    { i \in 1..Len(name) : name[i] # "/" /\ \E j \in Slashes(name) : j < i }

\* What lies between the first and the last "/" of a stored name: for
\* W/foo/sub/b.txt and for the directory W/foo/sub/ alike, foo/sub.
DirBelowWrapper(name) ==
    LET first == CHOOSE i \in Slashes(name) : \A j \in Slashes(name) : i <= j
        last == CHOOSE i \in Slashes(name) : \A j \in Slashes(name) : j <= i
    IN  SubSeq(name, first + 1, last - 1)

\* The first segment after the wrapper.
FirstBelowWrapper(name) ==
    LET i == CHOOSE k \in SegmentsBelowWrapper(name) :
                 \A j \in SegmentsBelowWrapper(name) : k <= j
    IN  << name[i] >>

\* The headers the last run decided on, by position in the stream.
Decided == 1..Len(exRes.log)

\* C4, as claimed: with a non-empty allow-set, an entry with more than one
\* segment below the wrapper is written exactly when its first segment below
\* the wrapper is in the allow-set.
C4_FirstSegmentDecides ==
    \A i \in Decided :
        LET name == exArchive[i].Name IN
        (SubdirTable(exPackages) # {} /\ Cardinality(SegmentsBelowWrapper(name)) > 1)
        => (exRes.log[i] = "write" <=> FirstBelowWrapper(name) \in SubdirTable(exPackages))

\* C4, amended: with a non-empty allow-set, an entry with more than one
\* segment below the wrapper is written exactly when the whole directory
\* part of its name below the wrapper is in the allow-set.
C4_DirectoryDecides ==
    \A i \in Decided :
        LET name == exArchive[i].Name IN
        (SubdirTable(exPackages) # {} /\ Cardinality(SegmentsBelowWrapper(name)) > 1)
        => (exRes.log[i] = "write" <=> DirBelowWrapper(name) \in SubdirTable(exPackages))

\* C4 witness: with allow-set {foo}, W/foo/sub/b.txt was skipped.
C4_Witness ==
    /\ SubdirTable(exPackages) = { << "foo" >> }
    /\ \E i \in Decided :
         /\ exArchive[i].Name = << "W", "/", "foo", "/", "sub", "/", "b.txt" >>
         /\ exRes.log[i] = "filtered"

TreeOf(f) == Restrict(f, { p \in DOMAIN f : IsUnder(p, exBase) })

\* C8: whenever the archive unpacks on an absent target, a run on the target
\* as it is left (stale, or by an earlier run) succeeds and leaves the same
\* tree as that single run.
C8_RerunIdempotent ==
    LET once == dlGithub(NoFile, exName, SubdirTable(exPackages),
                         [kind |-> "ok", files |-> exArchive])
    IN  (exRuns >= 1 /\ Served(exRes) /\ once.err = "")
        => (exRes.err = "" /\ TreeOf(fs) = TreeOf(once.fs))

----------------------------------------------------------------------------
(* Discovery (SpecDiscover). *)

IsStop(t) ==
    \/ t.kind = "error"
    \/ t.kind = "start" /\ t.local \in {"body", "BODY"}
    \/ t.kind = "end" /\ t.local \in {"head", "HEAD"}

\* The tokens of the head region: those before the first that ends it.
HeadRegion == { i \in 1..Len(dDoc) : \A j \in 1..i : ~IsStop(dDoc[j]) }

\* The well-formed redirect tags of the head region.
RedirectTags == { i \in HeadRegion : dDoc[i] \in {ImportGit, ImportSvn, ImportUpper} }

TagFields(t) ==
    CASE t = ImportGit -> metaImport(<< "example.org", "/", "pkg" >>, << "git" >>, GitRoot)
      [] t = ImportSvn -> metaImport(<< "example.org", "/", "pkg" >>, << "svn" >>, SvnRoot)
      [] OTHER -> metaImport(<< "example.org", "/", "pkg" >>, << "Git" >>, GitRoot)

\* The single tag after the go-source rule: a go-source tag naming a github
\* repository that follows it in the head region overrides its VCS and root.
OverriddenTag ==
    LET i == CHOOSE k \in RedirectTags : TRUE IN
    IF \E j \in HeadRegion : j > i /\ dDoc[j] = SourceGithub
    THEN metaImport(TagFields(dDoc[i]).Prefix, << "git" >>, GithubRoot)
    ELSE TagFields(dDoc[i])

\* C6: on a fetched document, discovery succeeds exactly when the head
\* region holds one well-formed redirect tag, and then returns that tag
\* after the go-source rule; otherwise it returns an error and no result.
C6_ExactlyOneTag ==
    dFetched = "ok" =>
        /\ dRes.err = "" <=> Cardinality(RedirectTags) = 1
        /\ dRes.err = "" => dRes.meta = OverriddenTag
        /\ dRes.err # "" => dRes.meta = NoMeta

\* C6 witness: two tags in the head region were refused.
C6_Witness ==
    /\ dFetched = "ok"
    /\ Cardinality(RedirectTags) = 2
    /\ dRes.err = "Too many imports"

====
